---- MODULE Spec2Model ----
(***************************************************************************)
(* SSRF monitor (src/main.go): an HTTP server whose handlers share one     *)
(* slice, accessLogs, guarded by one sync.RWMutex.  Every request is       *)
(* served by its own goroutine; the goroutines interleave at the lock      *)
(* operations, at the clock reads and at the writes of the response.       *)
(*                                                                         *)
(* Texts are sequences of lines, a line is a tuple of fields, and a field  *)
(* that the program parses (a header value, the peer address, a response   *)
(* body) is a sequence of atoms, so that splitting, trimming and measuring *)
(* are computed and not assumed.                                           *)
(***************************************************************************)
EXTENDS Integers, Sequences, FiniteSets

\* ------------------------------------------------------------- bounds
\* goroutines that serve requests at the same time
NumProcs == 2
\* requests accepted in one run of the server
MaxReqs == 3
\* largest value of the -limit flag that is tried
MaxLimit == 2
\* ticks of the clock in one second (the formats of time have second precision)
TicksPerSecond == 2

Procs == 1..NumProcs
\* values of the -limit flag: flag.Int accepts every integer, negative ones too
Limits == {-1} \cup (0..MaxLimit)

None == [none |-> TRUE]

VARIABLES
    maxLogs,     \* var maxLogs, set once by main from -limit
    accessLogs,  \* var accessLogs []LogEntry, newest first
    mutex,       \* var mutex sync.RWMutex: its writer (0: none) and its readers
    clock,       \* the wall clock read by time.Now()
    nreq,        \* requests accepted so far
    pc,          \* where each goroutine stands
    req,         \* the request a goroutine serves (r *http.Request)
    entry,       \* handleAll's local entry
    appended,    \* handleAll's value of append(...), before it is assigned
    logsCopy,    \* handleAdmin's local logsCopy
    resp,        \* what a goroutine has written to its http.ResponseWriter
    history,     \* every entry prepended so far, newest first (for the claims)
    sinceClear   \* how many of them were prepended after the last clear

vars == <<maxLogs, accessLogs, mutex, clock, nreq, pc, req, entry, appended,
          logsCopy, resp, history, sinceClear>>

\* ------------------------------------------------------------- texts
Active == <<"A", "c", "t", "i", "v", "e">>
Logged == <<"L", "o", "g", "g", "e", "d">>
NotFoundBody == <<"404 Not Found">>

RECURSIVE IndexOf(_, _, _)
\* the first position >= i of atom c in s, or 0
IndexOf(s, c, i) ==
    IF i > Len(s) THEN 0
    ELSE IF s[i] = c THEN i
    ELSE IndexOf(s, c, i + 1)

RECURSIVE LastIndexOf(_, _, _)
\* the last position <= i of atom c in s, or 0
LastIndexOf(s, c, i) ==
    IF i < 1 THEN 0
    ELSE IF s[i] = c THEN i
    ELSE LastIndexOf(s, c, i - 1)

\* mutant: the last value of the list is taken, the hop nearest the server
SplitLast(s) ==
    LET k == LastIndexOf(s, ",", Len(s))
    IN  IF k = 0 THEN s ELSE SubSeq(s, k + 1, Len(s))

\* strings.Split(s, ",")[0]
SplitFirst(s) ==
    LET k == IndexOf(s, ",", 1)
    IN  IF k = 0 THEN s ELSE SubSeq(s, 1, k - 1)

RECURSIVE TrimLeft(_)
TrimLeft(s) ==
    IF s # <<>> /\ Head(s) = " " THEN TrimLeft(Tail(s)) ELSE s

RECURSIVE TrimRight(_)
TrimRight(s) ==
    IF s # <<>> /\ s[Len(s)] = " " THEN TrimRight(SubSeq(s, 1, Len(s) - 1)) ELSE s

\* strings.TrimSpace
TrimSpace(s) == TrimRight(TrimLeft(s))

\* net.SplitHostPort: the host is what precedes the last colon; an address
\* without a colon is an error and the host returned is empty
SplitHostPort(addr) ==
    LET k == LastIndexOf(addr, ":", Len(addr))
    IN  IF k = 0 THEN <<>> ELSE SubSeq(addr, 1, k - 1)

RECURSIVE HeaderGet(_, _)
\* http.Header.Get: the first value of the header, or the empty string
HeaderGet(headers, name) ==
    IF headers = <<>> THEN <<>>
    ELSE IF Head(headers)[1] = name THEN Head(headers)[2]
    ELSE HeaderGet(Tail(headers), name)

\* ------------------------------------------------------------- requests
PeerAddr == <<"192.0.2.7", ":", "4711">>

ReqLive ==
    [method |-> "GET", path |-> "/", proto |-> "HTTP/1.1", host |-> <<"a.b">>,
     headers |-> <<>>, remoteAddr |-> PeerAddr, body |-> <<>>, bodyErr |-> FALSE]

ReqLog ==
    [method |-> "POST", path |-> "/log", proto |-> "HTTP/1.1", host |-> <<"a.b">>,
     headers |-> << <<"X-Forwarded-For", <<" ", "10.0.0.1", " ", ",", " ", "10.0.0.2">> >> >>,
     remoteAddr |-> PeerAddr, body |-> <<"x=1">>, bodyErr |-> FALSE]

\* the client announces a body and closes the connection before sending it
ReqLogCut == [ReqLog EXCEPT !.headers = <<>>, !.bodyErr = TRUE]

ReqFavicon == [ReqLive EXCEPT !.path = "/favicon.ico"]

ReqOther == [ReqLive EXCEPT !.path = "/x"]

ReqAdmin == [ReqLive EXCEPT !.path = "/admin"]

ReqClear == [ReqLive EXCEPT !.path = "/admin/clear"]

\* the header is present and its value is empty
ReqEmptyXff == [ReqLive EXCEPT !.headers = << <<"X-Forwarded-For", <<>> >> >>]

\* a single forwarded address, and a second header after it
ReqOneXff ==
    [ReqLive EXCEPT !.path = "/log",
                    !.headers = << <<"X-Forwarded-For", <<"10.0.0.9">> >>,
                                   <<"X-Forwarded-For", <<"10.0.0.3">> >> >>]

\* the first value of the list is empty
ReqCommaXff ==
    [ReqLive EXCEPT !.headers = << <<"X-Forwarded-For", <<",", " ", "10.0.0.2">> >> >>]

\* a body of one byte that is not valid UTF-8
ReqLogBinary == [ReqLog EXCEPT !.headers = <<>>, !.body = <<"0xFF">>]

\* the requests of the concurrent clients
Requests == {ReqLive, ReqLog, ReqOther, ReqAdmin, ReqClear}

\* the requests of the sequential client
AllRequests ==
    Requests \cup {ReqLogCut, ReqFavicon, ReqEmptyXff, ReqOneXff, ReqCommaXff,
                    ReqLogBinary}

\* the patterns registered on the default ServeMux: "/admin" and "/admin/clear"
\* match their path alone, "/" matches every other path
Mux(path) ==
    IF path = "/admin" THEN "handleAdmin"
    ELSE IF path = "/admin/clear" THEN "handleClear"
    ELSE "handleAll"

\* ------------------------------------------------------------- formatting
\* time.Time.Format with a layout of second precision
FormatTime(layout, t) == <<layout, t \div TicksPerSecond>>

\* time.Time.UnixNano: the tick count scaled by a constant, which keeps order
\* and equality
UnixNano(t) == t

\* time.Now() when the last reading was c: every reading falls on a later
\* tick than the one before, the case most favourable to the order of the ids
Now(c) == c + 1

RECURSIVE HeaderLines(_)
\* one line "Name: value" per header
HeaderLines(headers) ==
    IF headers = <<>> THEN <<>>
    ELSE << <<Head(headers)[1], Head(headers)[2]>> >> \o HeaderLines(Tail(headers))

\* httputil.DumpRequest(r, true): the request line, the Host line, the
\* headers, a blank line and the body.  It drains the body first, and when
\* that read fails it returns (nil, err): no byte of the request at all.
DumpRequest(r) ==
    IF r.bodyErr THEN <<>>
    ELSE << <<r.method, r.path, r.proto>>, <<"Host", r.host>> >>
         \o HeaderLines(r.headers)
         \o << <<>> >>
         \o (IF r.body = <<>> THEN <<>> ELSE <<r.body>>)

\* mutant: the branch for /log is missing
ResponseBodyAlwaysActive(path) == Active

\* responseBody of handleAll
ResponseBody(path) == IF path = "/log" THEN Logged ELSE Active

\* mutant: the format has one newline, and no blank line, before the body
RawResponseNoBlankLine(body, d) ==
    << <<"HTTP/1.1", "200", "OK">>,
       <<"Date", FormatTime("Mon, 02 Jan 2006 15:04:05 GMT", d)>>,
       <<"Content-Type", <<"text/plain; charset=utf-8">> >>,
       <<"Content-Length", <<Len(body)>> >>,
       body >>

\* the fmt.Sprintf of rawResponse
RawResponseOf(body, d) ==
    << <<"HTTP/1.1", "200", "OK">>,
       <<"Date", FormatTime("Mon, 02 Jan 2006 15:04:05 GMT", d)>>,
       <<"Content-Type", <<"text/plain; charset=utf-8">> >>,
       <<"Content-Length", <<Len(body)>> >>,
       <<>>,
       body >>

\* clientIP of handleAll
ClientIP(r) ==
    LET xff == HeaderGet(r.headers, "X-Forwarded-For")
    IN  IF xff # <<>> THEN TrimSpace(SplitFirst(xff)) ELSE SplitHostPort(r.remoteAddr)

\* mutant: the not-found branch for the other paths is missing
RouteRecordsAll(path) ==
    IF path = "/favicon.ico" THEN "favicon" ELSE "record"

\* the path decides: "favicon" and "notfound" are answered 404 and not
\* recorded, "record" goes on to the capture
Route(path) ==
    IF path = "/favicon.ico" THEN "favicon"
    ELSE IF path = "/log" THEN "record"
    ELSE IF path # "/" THEN "notfound"
    ELSE "record"

\* the LogEntry literal of handleAll; d is the clock read for the Date
\* header, t the later one for the id and the timestamps
NewEntry(r, d, t) ==
    [ID          |-> UnixNano(t),
     Timestamp   |-> FormatTime("2006-01-02 15:04:05", t),
     FilenameTS  |-> FormatTime("20060102_150405", t),
     IP          |-> ClientIP(r),
     RawRequest  |-> DumpRequest(r),
     RawResponse |-> RawResponseOf(ResponseBody(r.path), d)]

\* ------------------------------------------------------------- the export
\* atoms that are bytes outside every valid UTF-8 sequence
InvalidUtf8 == {"0xFF"}

\* encoding/json writes a string: a byte that is not valid UTF-8 becomes the
\* escape of U+FFFD, and with the HTML escaping of json.Marshal the
\* characters <, > and & become escapes too
JsonEscapeAtom(a) ==
    IF a \in InvalidUtf8 THEN "\\ufffd"
    ELSE IF a = "<" THEN "\\u003c"
    ELSE IF a = ">" THEN "\\u003e"
    ELSE IF a = "&" THEN "\\u0026"
    ELSE a

\* a JSON parser reads a string: an escape becomes the character it names
JsonUnescapeAtom(a) ==
    IF a = "\\ufffd" THEN "U+FFFD"
    ELSE IF a = "\\u003c" THEN "<"
    ELSE IF a = "\\u003e" THEN ">"
    ELSE IF a = "\\u0026" THEN "&"
    ELSE a

\* the line of text t at position i is the body of a dumped request: the
\* last line, after the blank line
IsBodyLine(t, i) == i = Len(t) /\ i > 1 /\ t[i - 1] = <<>>

\* a dumped request as a JSON string: the bytes of the body are the ones
\* the client is free to choose
JsonEscapeText(t) ==
    [i \in 1..Len(t) |->
        IF IsBodyLine(t, i)
        THEN [j \in 1..Len(t[i]) |-> JsonEscapeAtom(t[i][j])]
        ELSE t[i]]

\* and the JSON string read back
JsonUnescapeText(t) ==
    [i \in 1..Len(t) |->
        IF IsBodyLine(t, i)
        THEN [j \in 1..Len(t[i]) |-> JsonUnescapeAtom(t[i][j])]
        ELSE t[i]]

\* json.Marshal(logsCopy): an array of objects, the members in the order of
\* the fields of LogEntry and named by their json tags
JsonMarshal(logs) ==
    [i \in 1..Len(logs) |->
        [object |->
            << <<"id", [num |-> logs[i].ID]>>,
               <<"timestamp", [str |-> logs[i].Timestamp]>>,
               <<"filename_ts", [str |-> logs[i].FilenameTS]>>,
               <<"ip", [str |-> [j \in 1..Len(logs[i].IP) |-> JsonEscapeAtom(logs[i].IP[j])]]>>,
               <<"raw_request", [str |-> JsonEscapeText(logs[i].RawRequest)]>>,
               <<"raw_response", [str |-> logs[i].RawResponse]>> >>]]

\* the value of member k of JSON object o
Member(o, k) ==
    LET i == CHOOSE i \in 1..Len(o.object) : o.object[i][1] = k
    IN  o.object[i][2]

\* a JSON parser reads the array back into entries
JsonUnmarshal(doc) ==
    [i \in 1..Len(doc) |->
        [ID          |-> Member(doc[i], "id").num,
         Timestamp   |-> Member(doc[i], "timestamp").str,
         FilenameTS  |-> Member(doc[i], "filename_ts").str,
         IP          |-> [j \in 1..Len(Member(doc[i], "ip").str) |->
                             JsonUnescapeAtom(Member(doc[i], "ip").str[j])],
         RawRequest  |-> JsonUnescapeText(Member(doc[i], "raw_request").str),
         RawResponse |-> Member(doc[i], "raw_response").str]]

Pad == [pad |-> TRUE]

\* base64.StdEncoding.EncodeToString: quanta of three units, the last one
\* padded (a unit of the model is one object of the array)
Base64Encode(b) ==
    [quanta |-> [q \in 1..((Len(b) + 2) \div 3) |->
                    [k \in 1..3 |-> IF 3 * (q - 1) + k <= Len(b)
                                     THEN b[3 * (q - 1) + k] ELSE Pad]],
     pad |-> (3 - (Len(b) % 3)) % 3]

\* atob: the units of the quanta without the padding
Base64Decode(e) ==
    [i \in 1..(3 * Len(e.quanta) - e.pad) |->
        e.quanta[((i - 1) \div 3) + 1][((i - 1) % 3) + 1]]

\* ------------------------------------------------------------- the store
\* mutant: append(accessLogs, entry), the newest at the tail
PrependAtTail(e, logs) == logs \o <<e>>

\* append([]LogEntry{entry}, accessLogs...)
Prepend(e, logs) == <<e>> \o logs

\* accessLogs[:n] is a run-time panic unless 0 <= n <= cap(accessLogs)
InsertPanics(logs, n) == Len(logs) > n /\ n < 0

\* mutant: the truncation keeps one entry too many
TruncateOneMore(logs, n) ==
    IF Len(logs) > n + 1 THEN SubSeq(logs, 1, n + 1) ELSE logs

\* mutant: accessLogs[len(accessLogs)-maxLogs:], the head is cut off
TruncateKeepsTail(logs, n) ==
    IF Len(logs) > n THEN SubSeq(logs, Len(logs) - n + 1, Len(logs)) ELSE logs

\* if len(accessLogs) > maxLogs { accessLogs = accessLogs[:maxLogs] }
Truncate(logs, n) == IF Len(logs) > n THEN SubSeq(logs, 1, n) ELSE logs

\* make([]LogEntry, len(accessLogs)) and copy(logsCopy, accessLogs)
Snapshot(logs) == [i \in 1..Len(logs) |-> logs[i]]

\* mutant: accessLogs := []LogEntry{} declares a local and leaves the store
ClearedShadowed(logs) == logs

\* accessLogs = []LogEntry{}
Cleared(logs) == <<>>

\* ------------------------------------------------------------- the lock
Unlocked == [writer |-> 0, readers |-> {}]

\* mutant: the store is written without waiting for the lock
CanLockAlways(m) == TRUE

\* mutex.Lock() returns when no goroutine holds the lock in either mode
CanLock(m) == m.writer = 0 /\ m.readers = {}

\* mutant: the reader does not wait for the writer
CanRLockAlways(m) == TRUE

\* mutex.RLock() returns when no goroutine holds the lock for writing
CanRLock(m) == m.writer = 0

\* ------------------------------------------------------------- handleAll
\* mutant: the response is written before the entry is inserted
HandleAllNextEarly(l) ==
    CASE l = "handleAll" -> "respond"
      [] l = "respond"   -> "lock"
      [] l = "lock"      -> "append"
      [] l = "append"    -> "insert"
      [] l = "insert"    -> "unlock"
      [] l = "unlock"    -> "done"

\* the statement a goroutine of handleAll executes after the one at label l
HandleAllNext(l) ==
    CASE l = "handleAll" -> "lock"
      [] l = "lock"      -> "append"
      [] l = "append"    -> "insert"
      [] l = "insert"    -> "unlock"
      [] l = "unlock"    -> "respond"
      [] l = "respond"   -> "done"

Init ==
    /\ maxLogs \in Limits
    /\ accessLogs = <<>>
    /\ mutex = Unlocked
    /\ clock = 0
    /\ nreq = 0
    /\ pc = [p \in Procs |-> "idle"]
    /\ req = [p \in Procs |-> None]
    /\ entry = [p \in Procs |-> None]
    /\ appended = [p \in Procs |-> <<>>]
    /\ logsCopy = [p \in Procs |-> <<>>]
    /\ resp = [p \in Procs |-> None]
    /\ history = <<>>
    /\ sinceClear = 0

\* a goroutine serves no request: it has served none yet, or its handler
\* has returned
Free(p) == pc[p] \in {"idle", "done"}

\* the server accepts request r and serves it in a fresh goroutine
\* (goroutines are interchangeable: the first free one)
Accept(p, r) ==
    /\ nreq < MaxReqs
    /\ Free(p)
    /\ \A q \in Procs : q < p => ~Free(q)
    /\ nreq' = nreq + 1
    /\ req' = [req EXCEPT ![p] = r]
    /\ logsCopy' = [logsCopy EXCEPT ![p] = <<>>]

\* handleAll on a path it does not record: the two early returns
HandleAllNotFound(p, R) ==
    \E r \in R :
        /\ Mux(r.path) = "handleAll"
        /\ Route(r.path) # "record"
        /\ Accept(p, r)
        /\ resp' = [resp EXCEPT ![p] =
                      [status |-> 404,
                       body |-> IF Route(r.path) = "favicon" THEN <<>>
                                ELSE NotFoundBody]]
        /\ entry' = [entry EXCEPT ![p] = None]
        /\ pc' = [pc EXCEPT ![p] = "done"]
        /\ UNCHANGED <<maxLogs, appended, accessLogs, mutex, clock, history, sinceClear>>

\* handleAll on a path it records, up to the LogEntry literal: the dump of
\* the request, the two clock reads and the entry, all local to the goroutine
HandleAllCapture(p, R) ==
    \E r \in R :
        /\ Mux(r.path) = "handleAll"
        /\ Route(r.path) = "record"
        /\ Accept(p, r)
        /\ LET d == Now(clock)
               t == Now(d)
           IN  /\ entry' = [entry EXCEPT ![p] = NewEntry(r, d, t)]
               /\ clock' = t
        /\ resp' = [resp EXCEPT ![p] = None]
        /\ pc' = [pc EXCEPT ![p] = HandleAllNext("handleAll")]
        /\ UNCHANGED <<maxLogs, appended, accessLogs, mutex, history, sinceClear>>

\* mutant: a logging wrapper around every handler records the requests to
\* the admin surface too
HandleLockedRecorded(p, R) ==
    \E r \in R :
        /\ Mux(r.path) # "handleAll"
        /\ Accept(p, r)
        /\ entry' = [entry EXCEPT ![p] = None]
        /\ resp' = [resp EXCEPT ![p] = None]
        /\ pc' = [pc EXCEPT ![p] = Mux(r.path)]
        /\ accessLogs' = Truncate(Prepend(NewEntry(r, clock, clock), accessLogs), maxLogs)
        /\ history' = <<NewEntry(r, clock, clock)>> \o history
        /\ sinceClear' = sinceClear + 1
        /\ UNCHANGED <<maxLogs, appended, mutex, clock>>

\* handleAdmin and handleClear start at their lock operation
HandleLocked(p, R) ==
    \E r \in R :
        /\ Mux(r.path) # "handleAll"
        /\ Accept(p, r)
        /\ entry' = [entry EXCEPT ![p] = None]
        /\ resp' = [resp EXCEPT ![p] = None]
        /\ pc' = [pc EXCEPT ![p] = Mux(r.path)]
        /\ UNCHANGED <<maxLogs, appended, accessLogs, mutex, clock, history, sinceClear>>

\* mutex.Lock()
InsertLock(p) ==
    /\ pc[p] = "lock"
    /\ CanLock(mutex)
    /\ mutex' = [mutex EXCEPT !.writer = p]
    /\ pc' = [pc EXCEPT ![p] = HandleAllNext("lock")]
    /\ UNCHANGED <<maxLogs, accessLogs, clock, nreq, req, entry, appended, logsCopy,
                   resp, history, sinceClear>>

\* the right-hand side of line 108: a new slice of the entry followed by
\* the entries read from accessLogs
InsertAppend(p) ==
    /\ pc[p] = "append"
    /\ appended' = [appended EXCEPT ![p] = Prepend(entry[p], accessLogs)]
    /\ pc' = [pc EXCEPT ![p] = HandleAllNext("append")]
    /\ UNCHANGED <<maxLogs, accessLogs, mutex, clock, nreq, req, entry,
                   logsCopy, resp, history, sinceClear>>

\* the assignment of line 108 and the truncation; a slice bound out of range
\* panics after the prepend has been assigned, and the lock is never
\* released: the server recovers the panic of a handler and serves on
Insert(p) ==
    /\ pc[p] = "insert"
    /\ LET pre == appended[p]
       IN  IF InsertPanics(pre, maxLogs)
           THEN /\ accessLogs' = pre
                /\ pc' = [pc EXCEPT ![p] = "panic"]
           ELSE /\ accessLogs' = Truncate(pre, maxLogs)
                /\ pc' = [pc EXCEPT ![p] = HandleAllNext("insert")]
    /\ appended' = [appended EXCEPT ![p] = <<>>]
    /\ history' = <<entry[p]>> \o history
    /\ sinceClear' = sinceClear + 1
    /\ UNCHANGED <<maxLogs, mutex, clock, nreq, req, entry, logsCopy, resp>>

\* mutant: handleAll returns without mutex.Unlock()
InsertUnlockMissing(p) ==
    /\ pc[p] = "unlock"
    /\ pc' = [pc EXCEPT ![p] = HandleAllNext("unlock")]
    /\ UNCHANGED <<maxLogs, accessLogs, mutex, clock, nreq, req, entry, appended,
                   logsCopy, resp, history, sinceClear>>

\* mutex.Unlock()
InsertUnlock(p) ==
    /\ pc[p] = "unlock"
    /\ mutex' = [mutex EXCEPT !.writer = 0]
    /\ pc' = [pc EXCEPT ![p] = HandleAllNext("unlock")]
    /\ UNCHANGED <<maxLogs, accessLogs, clock, nreq, req, entry, appended, logsCopy,
                   resp, history, sinceClear>>

\* the header, the status and the body of the real response
Respond(p) ==
    /\ pc[p] = "respond"
    /\ resp' = [resp EXCEPT ![p] =
                  [status |-> 200, body |-> ResponseBody(req[p].path)]]
    /\ pc' = [pc EXCEPT ![p] = HandleAllNext("respond")]
    /\ UNCHANGED <<maxLogs, accessLogs, mutex, clock, nreq, req, entry, appended,
                   logsCopy, history, sinceClear>>

\* ------------------------------------------------------------- handleAdmin
\* mutex.RLock()
AdminRLock(p) ==
    /\ pc[p] = "handleAdmin"
    /\ CanRLock(mutex)
    /\ mutex' = [mutex EXCEPT !.readers = @ \cup {p}]
    /\ pc' = [pc EXCEPT ![p] = "copy"]
    /\ UNCHANGED <<maxLogs, accessLogs, clock, nreq, req, entry, appended, logsCopy,
                   resp, history, sinceClear>>

\* logsCopy := make(...); copy(logsCopy, accessLogs)
AdminCopy(p) ==
    /\ pc[p] = "copy"
    /\ logsCopy' = [logsCopy EXCEPT ![p] = Snapshot(accessLogs)]
    /\ pc' = [pc EXCEPT ![p] = "runlock"]
    /\ UNCHANGED <<maxLogs, accessLogs, mutex, clock, nreq, req, entry, appended, resp,
                   history, sinceClear>>

\* mutex.RUnlock()
AdminRUnlock(p) ==
    /\ pc[p] = "runlock"
    /\ mutex' = [mutex EXCEPT !.readers = @ \ {p}]
    /\ pc' = [pc EXCEPT ![p] = "render"]
    /\ UNCHANGED <<maxLogs, accessLogs, clock, nreq, req, entry, appended, logsCopy,
                   resp, history, sinceClear>>

\* mutant: the page is built from accessLogs, outside the lock
AdminRenderLive(p) ==
    /\ pc[p] = "render"
    /\ resp' = [resp EXCEPT ![p] =
                  [status |-> 200, logs |-> accessLogs,
                   allLogsBase64 |-> Base64Encode(JsonMarshal(logsCopy[p]))]]
    /\ pc' = [pc EXCEPT ![p] = "done"]
    /\ UNCHANGED <<maxLogs, accessLogs, mutex, clock, nreq, req, entry, appended,
                   logsCopy, history, sinceClear>>

\* the export and the page are built from logsCopy, outside the lock
AdminRender(p) ==
    /\ pc[p] = "render"
    /\ resp' = [resp EXCEPT ![p] =
                  [status |-> 200, logs |-> logsCopy[p],
                   allLogsBase64 |-> Base64Encode(JsonMarshal(logsCopy[p]))]]
    /\ pc' = [pc EXCEPT ![p] = "done"]
    /\ UNCHANGED <<maxLogs, accessLogs, mutex, clock, nreq, req, entry, appended,
                   logsCopy, history, sinceClear>>

\* ------------------------------------------------------------- handleClear
\* mutex.Lock()
ClearLock(p) ==
    /\ pc[p] = "handleClear"
    /\ CanLock(mutex)
    /\ mutex' = [mutex EXCEPT !.writer = p]
    /\ pc' = [pc EXCEPT ![p] = "clear"]
    /\ UNCHANGED <<maxLogs, accessLogs, clock, nreq, req, entry, appended, logsCopy,
                   resp, history, sinceClear>>

\* accessLogs = []LogEntry{}
ClearStore(p) ==
    /\ pc[p] = "clear"
    /\ accessLogs' = Cleared(accessLogs)
    /\ sinceClear' = 0
    /\ pc' = [pc EXCEPT ![p] = "cunlock"]
    /\ UNCHANGED <<maxLogs, mutex, clock, nreq, req, entry, appended, logsCopy, resp,
                   history>>

\* mutex.Unlock()
ClearUnlock(p) ==
    /\ pc[p] = "cunlock"
    /\ mutex' = [mutex EXCEPT !.writer = 0]
    /\ pc' = [pc EXCEPT ![p] = "cwrite"]
    /\ UNCHANGED <<maxLogs, accessLogs, clock, nreq, req, entry, appended, logsCopy,
                   resp, history, sinceClear>>

\* mutant: handleClear returns without writing the acknowledgement
ClearRespondSilent(p) ==
    /\ pc[p] = "cwrite"
    /\ resp' = [resp EXCEPT ![p] = [status |-> 200, body |-> <<>>]]
    /\ pc' = [pc EXCEPT ![p] = "done"]
    /\ UNCHANGED <<maxLogs, accessLogs, mutex, clock, nreq, req, entry, appended,
                   logsCopy, history, sinceClear>>

\* w.Write([]byte("ok"))
ClearRespond(p) ==
    /\ pc[p] = "cwrite"
    /\ resp' = [resp EXCEPT ![p] = [status |-> 200, body |-> <<"ok">>]]
    /\ pc' = [pc EXCEPT ![p] = "done"]
    /\ UNCHANGED <<maxLogs, accessLogs, mutex, clock, nreq, req, entry, appended,
                   logsCopy, history, sinceClear>>

\* ------------------------------------------------------------- the server
\* one step of goroutine p, the clients sending requests of R
Step(p, R) ==
    \/ HandleAllNotFound(p, R)
    \/ HandleAllCapture(p, R)
    \/ HandleLocked(p, R)
    \/ InsertLock(p)
    \/ InsertAppend(p)
    \/ Insert(p)
    \/ InsertUnlock(p)
    \/ Respond(p)
    \/ AdminRLock(p)
    \/ AdminCopy(p)
    \/ AdminRUnlock(p)
    \/ AdminRender(p)
    \/ ClearLock(p)
    \/ ClearStore(p)
    \/ ClearUnlock(p)
    \/ ClearRespond(p)

\* the server under concurrent clients
Next == \E p \in Procs : Step(p, Requests)

Spec == Init /\ [][Next]_vars

\* the steps of goroutine p once its handler has started
Run(p) ==
    \/ InsertLock(p)
    \/ InsertAppend(p)
    \/ Insert(p)
    \/ InsertUnlock(p)
    \/ Respond(p)
    \/ AdminRLock(p)
    \/ AdminCopy(p)
    \/ AdminRUnlock(p)
    \/ AdminRender(p)
    \/ ClearLock(p)
    \/ ClearStore(p)
    \/ ClearUnlock(p)
    \/ ClearRespond(p)

\* one request for each way through the three handlers
LiveRequests == {ReqLive, ReqOther, ReqAdmin, ReqClear}

LiveNext == \E p \in Procs : Step(p, LiveRequests)

\* the server started with -limit 1 or more
LiveInit == Init /\ maxLogs >= 1

\* the Go scheduler runs every goroutine that can run, and a goroutine
\* blocked in Lock or RLock can run again once the lock is free for it; the
\* clients are free to send requests or not
FairSpec ==
    /\ LiveInit
    /\ [][LiveNext]_vars
    /\ \A p \in Procs : WF_vars(Run(p))

\* the server with one request in flight at a time, the requests drawn from
\* the larger set
SeqNext == Step(1, AllRequests)

SeqSpec == Init /\ [][SeqNext]_vars

\* ------------------------------------------------------------- claims
Range(s) == {s[i] : i \in 1..Len(s)}

Min(a, b) == IF a < b THEN a ELSE b

\* goroutine p runs handleAll and has written its 200 response
Answered(p) == req[p] # None /\ resp[p] # None /\ entry[p] # None /\ resp[p].status = 200

\* goroutine p runs handleAdmin and has copied the store
HoldsSnapshot(p) ==
    /\ req[p] # None
    /\ Mux(req[p].path) = "handleAdmin"
    /\ pc[p] \in {"runlock", "render", "done"}

\* the step in which goroutine p takes the next request
Accepts(p) == nreq' = nreq + 1 /\ Free(p) /\ \A q \in Procs : q < p => ~Free(q)

\* C1: whatever the interleaving of captures, admin views and clears, the
\* store never holds more than maxLogs entries, for every maxLogs >= 0
StoreWithinLimit == maxLogs >= 0 => Len(accessLogs) <= maxLogs

\* an insert has met a full store
StoreFullAfterInsert ==
    /\ maxLogs >= 1
    /\ Len(accessLogs) = maxLogs
    /\ sinceClear = maxLogs + 1

\* C2: after more than maxLogs inserts with no clear among them (maxLogs >= 1)
\* the store holds exactly maxLogs entries, the maxLogs entries inserted
\* last, the newest at the head
KeepsMostRecent ==
    (maxLogs >= 1 /\ sinceClear > maxLogs) =>
        /\ Len(accessLogs) = maxLogs
        /\ \A i \in 1..maxLogs : accessLogs[i] = history[i]

\* an entry has been evicted from a store of at least two entries
EvictedOldest ==
    /\ maxLogs >= 2
    /\ sinceClear > maxLogs
    /\ Len(history) >= 3
    /\ history[3] \notin Range(accessLogs)

\* C3: read from the head to the tail of the store, the ids strictly
\* decrease, also when captures run concurrently
IdsStrictlyDecreasing ==
    \A i \in 1..(Len(accessLogs) - 1) : accessLogs[i].ID > accessLogs[i + 1].ID

\* C4: what handleAdmin copied under the read lock is its own: no step of
\* any goroutine, insert or clear, changes it afterwards, and the page is
\* built from it and not from the store
SnapshotIndependent ==
    [][\A p \in Procs :
          (HoldsSnapshot(p) /\ req'[p] = req[p] /\ pc'[p] \in {"runlock", "render", "done"}) =>
              /\ logsCopy'[p] = logsCopy[p]
              /\ (pc[p] = "render" /\ pc'[p] = "done") => resp'[p].logs = logsCopy[p]]_vars

\* a page has been built from a snapshot of some entries after the store
\* had moved on
SnapshotOutlivedStore ==
    \E p \in Procs :
        /\ HoldsSnapshot(p)
        /\ pc[p] = "done"
        /\ logsCopy[p] # <<>>
        /\ logsCopy[p] # accessLogs
        /\ resp[p].logs = logsCopy[p]

\* the entry of goroutine p has been inserted, and sits in sequence s unless
\* a clear or an eviction has removed it from the store since
InsertedAndKept(p, s) ==
    \E k \in 1..Len(history) :
        /\ history[k] = entry[p]
        /\ (k <= sinceClear /\ k <= maxLogs) => (k <= Len(s) /\ s[k] = entry[p])

\* C5: when the 200 response of a recordable request has been written, its
\* entry has been inserted and the lock released, so the store, and every
\* snapshot copied from then on, holds the entry unless a clear or an
\* eviction has removed it
InsertBeforeResponse ==
    /\ [](\A p \in Procs : Answered(p) =>
              /\ mutex.writer # p
              /\ InsertedAndKept(p, accessLogs))
    /\ [][\A p, q \in Procs :
              (Answered(p) /\ pc[q] = "copy" /\ pc'[q] = "runlock") =>
                  InsertedAndKept(p, logsCopy'[q])]_vars

\* an admin view holds the entry of a request that has been answered
AnsweredEntryInSnapshot ==
    \E p, q \in Procs :
        /\ Answered(p)
        /\ pc[p] = "done"
        /\ HoldsSnapshot(q)
        /\ entry[p] \in Range(logsCopy[q])

\* C6: a request for /favicon.ico or for any path but / and /log is answered
\* 404 in one step that creates no entry and leaves the store as it was
NotFoundLeavesStore ==
    [][\A p \in Procs :
          (Accepts(p) /\ Mux(req'[p].path) = "handleAll"
                      /\ req'[p].path \notin {"/", "/log"}) =>
              /\ accessLogs' = accessLogs
              /\ history' = history
              /\ entry'[p] = None
              /\ resp'[p] # None
              /\ resp'[p].status = 404]_vars

\* the favicon has been refused while the store held an entry
FaviconRefused ==
    \E p \in Procs :
        /\ pc[p] = "done"
        /\ req[p].path = "/favicon.ico"
        /\ resp[p].status = 404
        /\ accessLogs # <<>>

\* the body that the path should be answered with
ExpectedBody(path) ==
    IF path = "/" THEN <<"A", "c", "t", "i", "v", "e">>
    ELSE <<"L", "o", "g", "g", "e", "d">>

\* C7: with maxLogs >= 1 a request for / or /log adds exactly one entry, at
\* the head of the store; the body it records and the body of its 200
\* response are "Active" for / and "Logged" for /log
RecordsOneEntry ==
    /\ [][\A p \in Procs :
              (pc[p] = "insert" /\ pc'[p] # "insert" /\ maxLogs >= 1) =>
                  /\ req[p].path \in {"/", "/log"}
                  /\ Len(history') = Len(history) + 1
                  /\ Len(accessLogs') = Min(Len(accessLogs) + 1, maxLogs)
                  /\ Head(accessLogs') = entry[p]
                  /\ Tail(accessLogs') = SubSeq(accessLogs, 1, Len(accessLogs') - 1)
                  /\ entry[p].RawResponse[Len(entry[p].RawResponse)]
                        = ExpectedBody(req[p].path)]_vars
    /\ [](\A p \in Procs : Answered(p) => resp[p].body = ExpectedBody(req[p].path))

\* /log has been answered "Logged" and its entry is the head of the store
LoggedAtHead ==
    \E p \in Procs :
        /\ Answered(p)
        /\ req[p].path = "/log"
        /\ resp[p].body = <<"L", "o", "g", "g", "e", "d">>
        /\ accessLogs # <<>>
        /\ Head(accessLogs) = entry[p]

\* C8: after a clear, and as long as no insert has completed, the store is
\* empty and every snapshot copied is empty, whatever the store held before
ClearThenSnapshotEmpty ==
    /\ [](sinceClear = 0 => accessLogs = <<>>)
    /\ [][\A q \in Procs :
              (pc[q] = "copy" /\ pc'[q] = "runlock" /\ sinceClear = 0) =>
                  logsCopy'[q] = <<>>]_vars

\* an admin view is empty after a clear has discarded entries
EmptyAfterClear ==
    \E q \in Procs :
        /\ HoldsSnapshot(q)
        /\ logsCopy[q] = <<>>
        /\ sinceClear = 0
        /\ maxLogs >= 1
        /\ history # <<>>

\* goroutines between mutex.Lock() and mutex.Unlock(), a handler that
\* panicked with the lock held among them
Writing == {p \in Procs : pc[p] \in {"append", "insert", "unlock", "clear", "cunlock", "panic"}}

\* goroutines between mutex.RLock() and mutex.RUnlock()
Reading == {p \in Procs : pc[p] \in {"copy", "runlock"}}

\* s is a state the store was left in by a completed operation: a run of
\* at most maxLogs consecutive entries of the insertion history
Committed(s) ==
    \E k \in 0..Len(history) :
        /\ k + Len(s) <= Len(history)
        /\ s = SubSeq(history, k + 1, k + Len(s))

\* C9: inserts, clears and snapshot copies exclude one another: at most one
\* goroutine writes, none reads while one writes, and every snapshot is a
\* state a completed operation left, of at most maxLogs entries
Serialized ==
    /\ Cardinality(Writing) <= 1
    /\ Writing # {} => Reading = {}
    /\ \A p \in Writing : mutex.writer = p
    /\ \A p \in Reading : p \in mutex.readers
    /\ \A q \in Procs :
          (HoldsSnapshot(q) /\ maxLogs >= 0) =>
              /\ Len(logsCopy[q]) <= maxLogs
              /\ Committed(logsCopy[q])

\* an insert waits for the lock while an admin view copies a store of entries
WriterWaitsForReader ==
    \E p, q \in Procs :
        /\ pc[p] = "lock"
        /\ pc[q] = "runlock"
        /\ logsCopy[q] # <<>>

\* the text of request r when its body is empty
RequestHead(r) ==
    << <<r.method, r.path, r.proto>>, <<"Host", r.host>> >>
    \o [i \in 1..Len(r.headers) |-> <<r.headers[i][1], r.headers[i][2]>>]
    \o << <<>> >>

\* C10: when the body of a recordable request cannot be read, the entry is
\* inserted all the same, its rawRequest is the request line and the headers
\* followed by an empty body, and the 200 response is sent
BodyErrorKeepsRequestHead ==
    \A p \in Procs :
        (req[p] # None /\ req[p].bodyErr /\ entry[p] # None) =>
            /\ entry[p].RawRequest = RequestHead(req[p])
            /\ Answered(p) => entry[p] \in Range(history)

\* goroutine p takes a step of the handler whose labels are ls
Moves(p, ls) == pc[p] \in ls /\ pc'[p] # pc[p]

\* goroutine p holds the lock in neither mode
Released(p) == mutex.writer # p /\ p \notin mutex.readers

\* goroutine p has just got the lock in the mode it asked for
LockHeld(p) ==
    \/ pc[p] \in {"append", "clear"} /\ mutex.writer = p
    \/ pc[p] = "copy" /\ p \in mutex.readers

\* C11: under fair scheduling and with maxLogs >= 1, every handler that
\* has started eventually has returned, its response written and the lock
\* held no more, whatever the other goroutines do; and a handler that waits
\* for the lock goes on only with the lock held, so that it has acquired
\* the lock on its way
AlwaysAnswered ==
    /\ \A p \in Procs :
          (maxLogs >= 1 /\ ~Free(p)) ~> (pc[p] = "done" /\ resp[p] # None /\ Released(p))
    /\ [][\A p \in Procs :
              Moves(p, {"lock", "handleClear", "handleAdmin"}) => LockHeld(p)']_vars

\* every request of a run with inserts and a clear has been answered, and
\* the lock is free
AllAnswered ==
    /\ maxLogs >= 1
    /\ nreq = MaxReqs
    /\ \A p \in Procs : pc[p] = "done" /\ resp[p] # None
    /\ mutex = Unlocked
    /\ Len(history) >= 2
    /\ sinceClear = 0

\* goroutine p runs handleClear and has returned
ClearReturned(p) ==
    req[p] # None /\ Mux(req[p].path) = "handleClear" /\ pc[p] = "done"

\* C12: a clear empties the store whether it held entries or not, a clear
\* that follows a clear with no insert between them leaves the store as it
\* was, and the acknowledgement is "ok" with status 200 in both cases; with
\* one request at a time the store is empty when the clear has returned
ClearIdempotent ==
    /\ [][\A p \in Procs :
              (pc[p] = "clear" /\ pc'[p] # "clear") =>
                  /\ accessLogs' = <<>>
                  /\ sinceClear = 0 => accessLogs' = accessLogs]_vars
    /\ [](\A p \in Procs :
              ClearReturned(p) =>
                  /\ resp[p] = [status |-> 200, body |-> <<"ok">>]
                  /\ accessLogs = <<>>)

\* a clear of a store that never held an entry has been acknowledged
ClearOfEmptyStore ==
    \E p \in Procs :
        /\ ClearReturned(p)
        /\ resp[p].body = <<"ok">>
        /\ history = <<>>
        /\ maxLogs >= 1

\* C13: accepting a request for /admin or /admin/clear creates no entry; no
\* step of handleAdmin changes the store; no step of handleClear lengthens
\* it; and the store grows only in the insert step of a handleAll request
\* for / or /log
AdminNeverRecords ==
    [][/\ \A p \in Procs :
            /\ (Accepts(p) /\ req'[p].path \in {"/admin", "/admin/clear"}) =>
                  /\ pc'[p] \in {"handleAdmin", "handleClear"}
                  /\ entry'[p] = None
                  /\ accessLogs' = accessLogs
                  /\ history' = history
            /\ Moves(p, {"handleAdmin", "copy", "runlock", "render"}) =>
                  /\ accessLogs' = accessLogs
                  /\ history' = history
            /\ Moves(p, {"handleClear", "clear", "cunlock", "cwrite"}) =>
                  /\ Len(accessLogs') <= Len(accessLogs)
                  /\ history' = history
       /\ Len(accessLogs') > Len(accessLogs) =>
            \E p \in Procs :
                /\ Moves(p, {"insert"})
                /\ req[p].path \in {"/", "/log"}
                /\ Len(accessLogs') = Len(accessLogs) + 1]_vars

\* an admin view has returned and the store holds what it held when the
\* view copied it: every entry inserted so far
AdminViewLeftStore ==
    \E p \in Procs :
        /\ HoldsSnapshot(p)
        /\ pc[p] = "done"
        /\ accessLogs # <<>>
        /\ logsCopy[p] = accessLogs
        /\ Len(history) = Len(accessLogs)

\* C14: an insert step leaves a prefix of the new entry followed by the old
\* store: the entries that stay keep their fields and their order, the ones
\* that go are the last ones, and some go only when one more entry than
\* maxLogs would stay; a clear step leaves the store empty; every other
\* step leaves the store as it is
EntriesImmutable ==
    [][\A p \in Procs :
          /\ Moves(p, {"insert"}) =>
                /\ accessLogs' = SubSeq(<<entry[p]>> \o accessLogs, 1, Len(accessLogs'))
                /\ Len(accessLogs') < Len(accessLogs) + 1 =>
                      /\ Len(accessLogs) + 1 > maxLogs
                      /\ Len(accessLogs') = maxLogs
          /\ Moves(p, {"clear"}) => accessLogs' = <<>>
          /\ (pc'[p] # pc[p] /\ pc[p] \notin {"insert", "clear"}) =>
                accessLogs' = accessLogs]_vars

\* an insert into a full store of two entries has dropped the oldest and
\* kept the other one behind the new entry
TailEvictedHeadKept ==
    /\ maxLogs = 2
    /\ Len(history) = 3
    /\ sinceClear = 3
    /\ accessLogs = SubSeq(history, 1, 2)
    /\ \E p \in Procs : pc[p] = "unlock"

\* C15: when handleAdmin has returned, the entry list of its page is the
\* snapshot it copied, and the export of the same page, decoded from base64
\* and parsed as JSON, is that snapshot again, field by field and in the
\* same order
ExportRoundTrip ==
    \A p \in Procs :
        (HoldsSnapshot(p) /\ pc[p] = "done") =>
            /\ resp[p].logs = logsCopy[p]
            /\ JsonUnmarshal(Base64Decode(resp[p].allLogsBase64)) = logsCopy[p]

\* the header lines of request r that are forwarded-for headers
XffLines(r) == {i \in 1..Len(r.headers) : r.headers[i][1] = "X-Forwarded-For"}

\* the value of the first of them
XffValue(r) ==
    r.headers[CHOOSE i \in XffLines(r) : \A j \in XffLines(r) : i <= j][2]

\* what precedes the first comma of v, without the spaces around it
FirstValueTrimmed(v) ==
    LET commas == {i \in 1..Len(v) : v[i] = ","}
        n == IF commas = {} THEN Len(v)
             ELSE (CHOOSE i \in commas : \A j \in commas : i <= j) - 1
        ink == {i \in 1..n : v[i] # " "}
    IN  IF ink = {} THEN <<>>
        ELSE SubSeq(v, CHOOSE i \in ink : \A j \in ink : i <= j,
                       CHOOSE i \in ink : \A j \in ink : i >= j)

\* what precedes the last colon of the peer address
PeerHost(addr) ==
    LET colons == {i \in 1..Len(addr) : addr[i] = ":"}
    IN  SubSeq(addr, 1, (CHOOSE i \in colons : \A j \in colons : i >= j) - 1)

\* C16 as stated: the entry of a request that carries a forwarded-for header
\* has the first value of the header, trimmed, as its IP; the entry of a
\* request without the header has the host of the peer address
SourceIpWhenHeaderPresent ==
    \A p \in Procs :
        (req[p] # None /\ entry[p] # None) =>
            entry[p].IP = IF XffLines(req[p]) # {}
                          THEN FirstValueTrimmed(XffValue(req[p]))
                          ELSE PeerHost(req[p].remoteAddr)

\* C16: the entry of a request whose first forwarded-for header has a value
\* that is not empty has the first comma-separated value of it, trimmed, as
\* its IP, be that value empty or not; the entry of a request without the
\* header, or with an empty one, has the host of the peer address
SourceIpPrecedence ==
    \A p \in Procs :
        (req[p] # None /\ entry[p] # None) =>
            entry[p].IP = IF XffLines(req[p]) # {} /\ XffValue(req[p]) # <<>>
                          THEN FirstValueTrimmed(XffValue(req[p]))
                          ELSE PeerHost(req[p].remoteAddr)

\* the entry of a request forwarded by two proxies is in the store under
\* the first address of the list
ForwardedFirstValue ==
    \E p \in Procs :
        /\ Answered(p)
        /\ req[p] = ReqLog
        /\ entry[p].IP = <<"10.0.0.1">>
        /\ entry[p] \in Range(accessLogs)

\* text t is a response of status 200 with body b: the status line first, a
\* Content-Type line and a Content-Length line of the length of b among the
\* header lines, and a blank line and b last
IsResponseText(t, b) ==
    /\ Len(t) >= 3
    /\ t[1] = <<"HTTP/1.1", "200", "OK">>
    /\ \E i \in 2..(Len(t) - 2) : Len(t[i]) = 2 /\ t[i][1] = "Content-Type"
    /\ \E i \in 2..(Len(t) - 2) :
          Len(t[i]) = 2 /\ t[i][1] = "Content-Length" /\ t[i][2] = <<Len(b)>>
    /\ t[Len(t) - 1] = <<>>
    /\ t[Len(t)] = b

\* C17: the rawResponse of every entry, in the store or about to be
\* inserted, is a response text whose body is "Active" or "Logged", and the
\* body of the entry of an answered request is the body that the client
\* was sent
RawResponseMatchesBody ==
    /\ \A i \in 1..Len(accessLogs) :
          \E b \in {<<"A", "c", "t", "i", "v", "e">>, <<"L", "o", "g", "g", "e", "d">>} :
              IsResponseText(accessLogs[i].RawResponse, b)
    /\ \A p \in Procs :
          /\ (req[p] # None /\ entry[p] # None) =>
                IsResponseText(entry[p].RawResponse, ExpectedBody(req[p].path))
          /\ Answered(p) => IsResponseText(entry[p].RawResponse, resp[p].body)

\* the entry of an answered request for / is in the store, its
\* Content-Length the six bytes of "Active"
ActiveRecordedWithLength ==
    \E p \in Procs :
        /\ Answered(p)
        /\ req[p].path = "/"
        /\ resp[p].body = <<"A", "c", "t", "i", "v", "e">>
        /\ entry[p] \in Range(accessLogs)
        /\ entry[p].RawResponse[4] = <<"Content-Length", <<6>> >>

\* C18: whatever the value of -limit, no insert ends in a run-time panic,
\* a goroutine whose handler has returned holds the lock no more, and the
\* store holds at most max(maxLogs, 0) entries
InsertNeverFails ==
    /\ \A p \in Procs : pc[p] # "panic"
    /\ \A p \in Procs : Free(p) => Released(p)
    /\ Len(accessLogs) <= (IF maxLogs > 0 THEN maxLogs ELSE 0)

\* recordable requests accepted so far: each one reads the clock twice, and
\* nothing else reads it
Captures == clock \div 2

\* C19: when every handler has returned, no clear has discarded an entry
\* and at most maxLogs recordable requests have been accepted, the store
\* holds one entry for each of them: as many entries as requests, no entry
\* twice, every insert of the history, and the entry of every request that
\* a goroutine still remembers
NoInsertLost ==
    ((\A p \in Procs : Free(p)) /\ sinceClear = Len(history) /\ Captures <= maxLogs) =>
        /\ Len(accessLogs) = Captures
        /\ \A i, j \in 1..Len(accessLogs) : accessLogs[i] = accessLogs[j] => i = j
        /\ accessLogs = history
        /\ \A p \in Procs :
              Answered(p) => Cardinality({i \in 1..Len(accessLogs) : accessLogs[i] = entry[p]}) = 1

\* two requests have been recorded by two goroutines at the same time: both
\* have returned, both entries are in the store, and the one that read the
\* clock first was inserted last
TwoConcurrentRecorded ==
    /\ maxLogs = 2
    /\ \A p \in Procs : Free(p)
    /\ sinceClear = 2
    /\ Len(accessLogs) = 2
    /\ accessLogs[1].ID < accessLogs[2].ID
    /\ \E p, q \in Procs :
          Answered(p) /\ Answered(q) /\ entry[p] = accessLogs[1] /\ entry[q] = accessLogs[2]

====
